---- MODULE Spec2Model ----
(***************************************************************************)
(* Model of sdcm/remote.py: the module-level run() command executor with   *)
(* its retry loop, the update_fabric_env decorator, and the Remote client  *)
(* (run, run_quiet, uptime, makedir, send_files, receive_files) on top of  *)
(* fabric's global env.                                                    *)
(*                                                                         *)
(* fabric (fabric.operations.run/put/get, fabric.tasks.execute) is an      *)
(* external library: each call to it is one step whose outcome (a report,  *)
(* or one of the exceptions the code names) is chosen nondeterministically.*)
(* time.time() and the duration field derived from it are left out.        *)
(***************************************************************************)
EXTENDS Integers, Sequences, FiniteSets, TLC

(* ------------------------------ bounds -------------------------------- *)

\* the attempt counter of one call saturates here (the loop itself is unbounded)
MaxAttempts == 3
\* the transport reports exit statuses 0..MaxRc
MaxRc == 2

(* --------------------------- program constants ------------------------ *)

\* Remote.__init__: port=22
DefaultPort == 22
\* run(): result.exit_status = -300
NoResponseStatus == -300

None == "None"
\* getpass.getuser()
OSUser == "tester"

Clients == {"c1", "c2"}
NoClient == "-"

Commands == {"true", "false"}
Paths == {"/a", "/b"}

NetworkError == "NetworkError"
AuthenticationError == "AuthenticationError"
ValueError == "ValueError"
CmdError == "CmdError"

(* ------------------- constructor arguments of Remote ------------------ *)

AllArgs ==
  [hostname : {"h1", "h2"}, username : {None, "root"}, password : {None, "pw"},
   key_filename : {None, "id.pem"}, port : {DefaultPort, 2222}, quiet : BOOLEAN]

BaseArgs ==
  [hostname |-> "h1", username |-> None, password |-> None,
   key_filename |-> None, port |-> DefaultPort, quiet |-> FALSE]

ArgFields == {"hostname", "username", "password", "key_filename", "port", "quiet"}

\* the argument tuples tried: the defaults, each single deviation from them,
\* and the tuple that deviates in every field
CtorArgs ==
  {a \in AllArgs : Cardinality({f \in ArgFields : a[f] # BaseArgs[f]}) \in {0, 1, 6}}

\* Remote.__init__, the instance attributes
SessionConfig(a) ==
  [hostname |-> a.hostname,
   username |-> IF a.username = None THEN OSUser ELSE a.username,
   password |-> a.password,
   key_filename |-> a.key_filename,
   port |-> a.port,
   quiet |-> a.quiet]

NoConfig ==
  [hostname |-> None, username |-> None, password |-> None,
   key_filename |-> None, port |-> 0, quiet |-> FALSE]

\* Remote.__init__, fabric.api.env.update(...): the connection parameters
InitEnv(e, s) ==
  [e EXCEPT !.host_string = s.hostname, !.user = s.username,
            !.password = s.password,
            !.key_filename = s.key_filename, !.port = s.port]

\* a wrapper that leaves env.host_string as it finds it
WrapperEnv_KeepsHost(e, s) ==
  [e EXCEPT !.user = s.username,
            !.key_filename = s.key_filename, !.port = s.port]

\* update_fabric_env.wrapper, fabric.api.env.update(...)
WrapperEnv(e, s) ==
  [e EXCEPT !.host_string = s.hostname, !.user = s.username,
            !.key_filename = s.key_filename, !.port = s.port]

(* ----------------------------- the transport -------------------------- *)

\* what fabric.operations.run returns with warn_only=True: the output, with
\* return_code, and failed/succeeded set from it (failed iff the code is not 0)
Reports ==
  {[stdout |-> "out", stderr |-> err, return_code |-> rc,
    failed |-> (rc # 0), succeeded |-> (rc = 0)] :
      rc \in 0..MaxRc, err \in {"", "err"}}

\* the exceptions fabric.operations.run raises: a connection-level error, or
\* an abort, which env.abort_exception turns into AuthenticationError
ExecuteErrors == {NetworkError, AuthenticationError}

\* the exceptions fabric.operations.put/get raise: those, and ValueError
TransferErrors == {NetworkError, AuthenticationError, ValueError}

\* a run() without the except clause
RetriedErrors_Nothing == {}

\* a run() whose except clause names AuthenticationError alone
RetriedErrors_AuthOnly == {AuthenticationError}

\* a run() whose except clause names NetworkError alone
RetriedErrors_NetworkOnly == {NetworkError}

\* run(): except (fabric.network.NetworkError, AuthenticationError)
RetriedErrors == {NetworkError, AuthenticationError}

\* transfer helpers whose except clause names ValueError alone
TransferCaught_ValueOnly == {ValueError}

\* _send_files/_receive_files: except (ValueError, AuthenticationError)
TransferCaught == {ValueError, AuthenticationError}

(* ------------------------------ CmdError ------------------------------ *)

\* a CmdError object: command, result (<<>> for None, or <<r>> with r the
\* interrupted flag and the exit status of the CmdResult, the status <<>> for
\* None or <<n>>), additional_text; by tells who built it, str is str() of it
\* once taken
NoErr ==
  [command |-> None, result |-> <<>>, additional_text |-> None,
   by |-> None, str |-> None]

\* "if self.additional_text": None and the empty string do not count
Truthy(text) == text # None /\ text # ""

\* a __str__ that looks at the exit status before the interrupted flag
CmdErrorStr_StatusFirst(e) ==
  IF e.result # <<>>
  THEN LET r == e.result[1]
           msg == IF r.exit_status = <<>>
                  THEN "Command '" \o e.command
                         \o "' failed and is not responding to signals"
                  ELSE IF r.interrupted
                  THEN "Command " \o e.command \o " interrupted by user (Ctrl+C)"
                  ELSE "Command '" \o e.command \o "' failed (rc="
                         \o ToString(r.exit_status[1]) \o ")"
       IN  IF Truthy(e.additional_text)
           THEN msg \o ", " \o e.additional_text
           ELSE msg
  ELSE "CmdError"

\* CmdError.__str__
CmdErrorStr(e) ==
  IF e.result # <<>>
  THEN LET r == e.result[1]
       IN  IF r.interrupted
           THEN "Command " \o e.command \o " interrupted by user (Ctrl+C)"
           ELSE LET msg == IF r.exit_status = <<>>
                           THEN "Command '" \o e.command
                                  \o "' failed and is not responding to signals"
                           ELSE "Command '" \o e.command \o "' failed (rc="
                                  \o ToString(r.exit_status[1]) \o ")"
                IN  IF Truthy(e.additional_text)
                    THEN msg \o ", " \o e.additional_text
                    ELSE msg
  ELSE "CmdError"

(* --------------------------- Command Executor ------------------------- *)

\* a run() in which an error of an earlier attempt sticks: the result is the
\* "no response" one whenever an exception was recorded
RunResult_ErrorSticks(command, fabric_result, fabric_exception) ==
  IF fabric_result = <<>> \/ fabric_exception # None
  THEN [command |-> command,
        stdout |-> "Unable to get stdout (" \o fabric_exception \o ")",
        stderr |-> "Unable to get stderr (" \o fabric_exception \o ")",
        exit_status |-> NoResponseStatus,
        failed |-> TRUE, succeeded |-> FALSE, interrupted |-> FALSE]
  ELSE [command |-> command,
        stdout |-> fabric_result[1].stdout,
        stderr |-> fabric_result[1].stderr,
        exit_status |-> fabric_result[1].return_code,
        failed |-> fabric_result[1].failed,
        succeeded |-> fabric_result[1].succeeded, interrupted |-> FALSE]

\* CmdResult as run() fills it in; fabric_result is <<>> (None) or <<report>>
RunResult(command, fabric_result, fabric_exception) ==
  IF fabric_result = <<>>
  THEN [command |-> command,
        stdout |-> "Unable to get stdout (" \o fabric_exception \o ")",
        stderr |-> "Unable to get stderr (" \o fabric_exception \o ")",
        exit_status |-> NoResponseStatus,
        failed |-> TRUE, succeeded |-> FALSE, interrupted |-> FALSE]
  ELSE [command |-> command,
        stdout |-> fabric_result[1].stdout,
        stderr |-> fabric_result[1].stderr,
        exit_status |-> fabric_result[1].return_code,
        failed |-> fabric_result[1].failed,
        succeeded |-> fabric_result[1].succeeded, interrupted |-> FALSE]

Returned(tag, res) ==
  [kind |-> "returned", value |-> tag, exc |-> None, command |-> None, result |-> res]
Raised(e, command, res) ==
  [kind |-> "raised", value |-> None, exc |-> e, command |-> command, result |-> res]
NoOutcome ==
  [kind |-> "none", value |-> None, exc |-> None, command |-> None, result |-> <<>>]

\* a run() that fills in one CmdResult object shared by all calls
HeldAfterRun_SharedObject(h, result) ==
  IF h.result = <<>> THEN h ELSE [h EXCEPT !.result = <<result>>]

\* run(), line 99: result = CmdResult() is a new object in every call, so
\* filling it in (118-131) writes to no result of an earlier call
HeldAfterRun(h, result) == h

\* a run() that returns the result whatever ignore_status and failed are
RunOutcome_NeverRaises(command, ignore_status, result) ==
  Returned("CmdResult", <<result>>)

\* a run() without the "if result.failed" test
RunOutcome_NoFailedTest(command, ignore_status, result) ==
  IF ~ignore_status
  THEN Raised(CmdError, command, <<result>>)
  ELSE Returned("CmdResult", <<result>>)

\* a run() without the "if not ignore_status" test
RunOutcome_NoIgnoreTest(command, ignore_status, result) ==
  IF result.failed
  THEN Raised(CmdError, command, <<result>>)
  ELSE Returned("CmdResult", <<result>>)

\* run(), lines 132-135: raise CmdError(command, result) or return result
RunOutcome(command, ignore_status, result) ==
  IF ~ignore_status /\ result.failed
  THEN Raised(CmdError, command, <<result>>)
  ELSE Returned("CmdResult", <<result>>)

\* an uptime() that returns res whatever its exit status
UptimeOutcome_NoStatusTest(o) == o

\* Remote.uptime on what self.run('uptime', ignore_status=True) gave
UptimeOutcome(o) ==
  IF o.kind = "raised" THEN o
  ELSE IF o.result[1].exit_status = 0 THEN o
  ELSE Returned("''", <<>>)

\* Remote.makedir on what self.run('mkdir -p ...') gave: no return statement
MakedirOutcome(o) ==
  IF o.kind = "raised" THEN o ELSE Returned("None", <<>>)

\* a run_quiet that hands back the result where run raises CmdError
Finish_QuietSwallowsError(op, o) ==
  CASE op = "uptime" -> UptimeOutcome(o)
    [] op = "makedir" -> MakedirOutcome(o)
    [] op = "run_quiet" /\ o.kind = "raised" -> Returned("CmdResult", o.result)
    [] OTHER -> o

\* what the public method hands its caller, given what _run ended with
Finish(op, o) ==
  CASE op = "uptime" -> UptimeOutcome(o)
    [] op = "makedir" -> MakedirOutcome(o)
    [] OTHER -> o

\* _send_files/_receive_files: t is "ok" or the exception put/get raised
TransferOutcome(t) ==
  IF t = "ok" THEN Returned("True", <<>>)
  ELSE IF t \in TransferCaught THEN Returned("False", <<>>)
  ELSE Raised(t, None, <<>>)

(* -------------------------------- state ------------------------------- *)

VARIABLES
  cfg,               \* cfg[c]: the attributes of Remote instance c
  env,               \* fabric.api.env: the ambient connection parameters
  pc,                \* pc[c]: where instance c's current call stands
  call,              \* call[c]: the public method called and its arguments
  attempts,          \* attempts[c]: transport calls made by the current call
  fabric_exception,  \* run(): the local fabric_exception
  fabric_result,     \* run(): the local fabric_result, <<>> for None
  outcome,           \* outcome[c]: what the current call returned or raised
  wire,              \* the last call made to fabric.operations.run/put/get
  held,              \* what a caller has kept of an earlier call: its outcome
  interleave,        \* whether the application lets calls of instances overlap
  err                \* a CmdError object in some caller's hands, and its str()

vars ==
  <<cfg, env, pc, call, attempts, fabric_exception, fabric_result, outcome, wire,
    held, interleave, err>>

RunOps == {"run", "run_quiet", "uptime", "makedir"}

NoCall ==
  [op |-> None, command |-> None, ignore_status |-> FALSE,
   local_path |-> None, remote_path |-> None]

\* fabric's defaults for the connection parameters
DefaultEnv ==
  [host_string |-> None, user |-> OSUser, password |-> None,
   key_filename |-> None, port |-> DefaultPort]

\* wire: the function called (kind) by which instance, with which arguments
\* and under which env, what it answered (reply: "report", "ok" or the
\* exception raised), and a bit (turn) that tells a call from the one before
NoWire ==
  [kind |-> "none", client |-> NoClient, args |-> <<>>, quiet |-> FALSE,
   hidden |-> FALSE, env |-> DefaultEnv, reply |-> None, turn |-> 0]

Init ==
  /\ cfg = [c \in Clients |-> NoConfig]
  /\ env = DefaultEnv
  /\ pc = [c \in Clients |-> "new"]
  /\ call = [c \in Clients |-> NoCall]
  /\ attempts = [c \in Clients |-> 0]
  /\ fabric_exception = [c \in Clients |-> None]
  /\ fabric_result = [c \in Clients |-> <<>>]
  /\ outcome = [c \in Clients |-> NoOutcome]
  /\ wire = NoWire
  /\ held = NoOutcome
  /\ interleave = FALSE
  /\ err = NoErr

\* no other instance is in the middle of a call
Serial(c) == \A d \in Clients \ {c} : pc[d] \in {"new", "idle"}

Bump(n) == IF n < MaxAttempts THEN n + 1 ELSE n

(* ------------------------------- actions ------------------------------ *)

\* Remote.__init__
Construct(c) ==
  /\ pc[c] = "new"
  /\ \E a \in CtorArgs :
       /\ cfg' = [cfg EXCEPT ![c] = SessionConfig(a)]
       /\ env' = InitEnv(env, SessionConfig(a))
  /\ pc' = [pc EXCEPT ![c] = "idle"]
  /\ UNCHANGED <<call, attempts, fabric_exception, fabric_result, outcome, wire>>
  /\ UNCHANGED <<held, interleave, err>>

\* a public method is entered: fabric.tasks.execute dispatches the wrapped method
Enter(c, k) ==
  /\ pc[c] = "idle"
  /\ call' = [call EXCEPT ![c] = k]
  /\ pc' = [pc EXCEPT ![c] = "wrapper"]
  /\ attempts' = [attempts EXCEPT ![c] = 0]
  /\ fabric_exception' = [fabric_exception EXCEPT ![c] = None]
  /\ fabric_result' = [fabric_result EXCEPT ![c] = <<>>]
  /\ outcome' = [outcome EXCEPT ![c] = NoOutcome]
  /\ UNCHANGED <<cfg, env, wire, held, interleave, err>>

\* Remote.run(command, ignore_status)
Run(c) ==
  \E cmd \in Commands, ign \in BOOLEAN :
    Enter(c, [NoCall EXCEPT !.op = "run", !.command = cmd, !.ignore_status = ign])

\* Remote.run_quiet: execute(self._run, command, ignore_status, ...)
RunQuietCall(cmd, ign) ==
  [NoCall EXCEPT !.op = "run_quiet", !.command = cmd, !.ignore_status = ign]

\* Remote.run_quiet(command, ignore_status)
RunQuiet(c) ==
  \E cmd \in Commands, ign \in BOOLEAN : Enter(c, RunQuietCall(cmd, ign))

\* Remote.uptime(): self.run('uptime', ignore_status=True)
Uptime(c) ==
  Enter(c, [NoCall EXCEPT !.op = "uptime", !.command = "uptime",
                          !.ignore_status = TRUE])

\* a makedir that passes ignore_status=True
MakedirCall_IgnoresStatus(p) ==
  [NoCall EXCEPT !.op = "makedir", !.command = "mkdir -p " \o p,
                 !.ignore_status = TRUE]

\* Remote.makedir: self.run('mkdir -p %s' % remote_path), ignore_status left
\* at its default, False
MakedirCall(p) ==
  [NoCall EXCEPT !.op = "makedir", !.command = "mkdir -p " \o p,
                 !.ignore_status = FALSE]

\* Remote.makedir(remote_path)
Makedir(c) ==
  \E p \in Paths : Enter(c, MakedirCall(p))

\* Remote.send_files(local_path, remote_path)
SendFiles(c) ==
  \E l \in Paths, r \in Paths :
    Enter(c, [NoCall EXCEPT !.op = "send_files", !.local_path = l,
                            !.remote_path = r])

\* Remote.receive_files(local_path, remote_path)
ReceiveFiles(c) ==
  \E l \in Paths, r \in Paths :
    Enter(c, [NoCall EXCEPT !.op = "receive_files", !.local_path = l,
                            !.remote_path = r])

\* update_fabric_env.wrapper: update fabric.api.env, then call the method
Wrapper(c) ==
  /\ pc[c] = "wrapper"
  /\ env' = WrapperEnv(env, cfg[c])
  /\ pc' = [pc EXCEPT ![c] = "body"]
  /\ UNCHANGED <<cfg, call, attempts, fabric_exception, fabric_result, outcome, wire>>
  /\ UNCHANGED <<held, interleave, err>>

\* the call fabric.operations.run(command, quiet, warn_only=True, ...) as
\* issued (under fabric.api.quiet() in run_quiet), and its answer
RunWire(c, answer) ==
  [kind |-> "run", client |-> c, args |-> <<call[c].command>>,
   quiet |-> cfg[c].quiet, hidden |-> (call[c].op = "run_quiet"), env |-> env,
   reply |-> answer, turn |-> 1 - wire.turn]

\* the call fabric.operations.put/get as issued, and its answer
TransferWire(c, k, a, answer) ==
  [kind |-> k, client |-> c, args |-> a, quiet |-> FALSE, hidden |-> FALSE,
   env |-> env, reply |-> answer, turn |-> 1 - wire.turn]

\* run(): one pass of the loop in which fabric.operations.run raises e
RunRaises(c) ==
  /\ pc[c] = "body"
  /\ call[c].op \in RunOps
  /\ attempts' = [attempts EXCEPT ![c] = Bump(@)]
  /\ \E e \in ExecuteErrors :
       /\ wire' = RunWire(c, e)
       /\ IF e \in RetriedErrors
            THEN /\ fabric_exception' = [fabric_exception EXCEPT ![c] = e]
                 /\ UNCHANGED <<pc, outcome>>
            ELSE /\ outcome' = [outcome EXCEPT ![c] =
                      Finish(call[c].op, Raised(e, None, <<>>))]
                 /\ pc' = [pc EXCEPT ![c] = "done"]
                 /\ UNCHANGED fabric_exception
  /\ UNCHANGED <<cfg, env, call, fabric_result, held, interleave, err>>

\* run(): the pass in which fabric.operations.run returns, and the rest of
\* run() and of the public method after it
RunReports(c) ==
  /\ pc[c] = "body"
  /\ call[c].op \in RunOps
  /\ wire' = RunWire(c, "report")
  /\ attempts' = [attempts EXCEPT ![c] = Bump(@)]
  /\ \E rep \in Reports :
       /\ fabric_result' = [fabric_result EXCEPT ![c] = <<rep>>]
       /\ outcome' = [outcome EXCEPT ![c] =
            Finish(call[c].op,
                   RunOutcome(call[c].command, call[c].ignore_status,
                              RunResult(call[c].command, <<rep>>,
                                        fabric_exception[c])))]
  /\ pc' = [pc EXCEPT ![c] = "done"]
  /\ held' = HeldAfterRun(held, RunResult(call[c].command, fabric_result'[c],
                                          fabric_exception[c]))
  /\ UNCHANGED <<cfg, env, call, fabric_exception, interleave, err>>

\* _send_files: fabric.operations.put(local_path, remote_path, mirror_local_mode=True)
Put(c) ==
  /\ pc[c] = "body"
  /\ call[c].op = "send_files"
  /\ attempts' = [attempts EXCEPT ![c] = Bump(@)]
  /\ \E t \in {"ok"} \cup TransferErrors :
       /\ wire' = TransferWire(c, "put",
                               <<call[c].local_path, call[c].remote_path>>, t)
       /\ outcome' = [outcome EXCEPT ![c] = TransferOutcome(t)]
  /\ pc' = [pc EXCEPT ![c] = "done"]
  /\ UNCHANGED <<cfg, env, call, fabric_exception, fabric_result, held, interleave, err>>

\* _receive_files: fabric.operations.get(remote_path, local_path)
Get(c) ==
  /\ pc[c] = "body"
  /\ call[c].op = "receive_files"
  /\ attempts' = [attempts EXCEPT ![c] = Bump(@)]
  /\ \E t \in {"ok"} \cup TransferErrors :
       /\ wire' = TransferWire(c, "get",
                               <<call[c].remote_path, call[c].local_path>>, t)
       /\ outcome' = [outcome EXCEPT ![c] = TransferOutcome(t)]
  /\ pc' = [pc EXCEPT ![c] = "done"]
  /\ UNCHANGED <<cfg, env, call, fabric_exception, fabric_result, held, interleave, err>>

\* the caller has taken the return value or the exception: the call's frame
\* and locals are gone
Leave(c) ==
  /\ pc[c] = "done"
  /\ pc' = [pc EXCEPT ![c] = "idle"]
  /\ call' = [call EXCEPT ![c] = NoCall]
  /\ attempts' = [attempts EXCEPT ![c] = 0]
  /\ fabric_exception' = [fabric_exception EXCEPT ![c] = None]
  /\ fabric_result' = [fabric_result EXCEPT ![c] = <<>>]
  /\ outcome' = [outcome EXCEPT ![c] = NoOutcome]
  /\ wire' = NoWire
  /\ UNCHANGED <<cfg, env, held, interleave, err>>

\* the calls of one instance after another: a call starts only when no other
\* instance is inside one
Next ==
  \E c \in Clients :
    \/ Serial(c) /\ Construct(c)
    \/ Serial(c) /\ Run(c)
    \/ Serial(c) /\ RunQuiet(c)
    \/ Serial(c) /\ Uptime(c)
    \/ Serial(c) /\ Makedir(c)
    \/ Serial(c) /\ SendFiles(c)
    \/ Serial(c) /\ ReceiveFiles(c)
    \/ Wrapper(c)
    \/ RunRaises(c)
    \/ RunReports(c)
    \/ Put(c)
    \/ Get(c)
    \/ Leave(c)

Spec == Init /\ [][Next]_vars

\* the calling thread keeps running: the wrapper goes on to the method, and
\* each call to fabric.operations.run/put/get comes back, with a report or
\* with an exception
FairSpec ==
  Spec /\ \A c \in Clients :
            WF_vars(Wrapper(c) \/ RunRaises(c) \/ RunReports(c) \/ Put(c) \/ Get(c))

\* the transport does, in the end, return a report to a command that keeps
\* being issued
ReportFairSpec ==
  Spec /\ \A c \in Clients : WF_vars(Wrapper(c)) /\ WF_vars(RunReports(c))

\* the CmdError run() raises (line 134: command and result given, no
\* additional_text), as the object whose str() is taken
ErrOf(o) ==
  [command |-> o.command,
   result |-> <<[interrupted |-> o.result[1].interrupted,
                 exit_status |-> <<o.result[1].exit_status>>]>>,
   additional_text |-> None, by |-> "run", str |-> None]

\* the CmdErrors run() raises: any command, any failed report, after any
\* or no error
RunErrs ==
  {ErrOf(RunOutcome(cmd, FALSE, RunResult(cmd, <<rep>>, e))) :
     cmd \in Commands, rep \in {r \in Reports : r.failed},
     e \in RetriedErrors \cup {None}}

\* the exit statuses a CmdResult handed to CmdError may carry
Statuses ==
  {<<>>} \cup {<<n>> : n \in (0..MaxRc) \cup {NoResponseStatus}}

\* the CmdErrors other code builds: CmdError(command, result, additional_text)
CallerErrs ==
  [command : Commands,
   result : {<<>>} \cup {<<r>> : r \in [interrupted : BOOLEAN,
                                        exit_status : Statuses]},
   additional_text : {None, "", "timed out"},
   by : {"caller"}, str : {None}]

MsgInit ==
  /\ err \in RunErrs \cup CallerErrs
  /\ cfg = [c \in Clients |-> NoConfig]
  /\ env = DefaultEnv
  /\ pc = [c \in Clients |-> "new"]
  /\ call = [c \in Clients |-> NoCall]
  /\ attempts = [c \in Clients |-> 0]
  /\ fabric_exception = [c \in Clients |-> None]
  /\ fabric_result = [c \in Clients |-> <<>>]
  /\ outcome = [c \in Clients |-> NoOutcome]
  /\ wire = NoWire
  /\ held = NoOutcome
  /\ interleave = FALSE

\* str(e) of the CmdError
Str ==
  /\ err.str = None
  /\ err' = [err EXCEPT !.str = CmdErrorStr(err)]
  /\ UNCHANGED <<cfg, env, pc, call, attempts, fabric_exception, fabric_result,
                 outcome, wire, held, interleave>>

MsgSpec == MsgInit /\ [][Str]_vars

\* run and run_quiet side by side: two instances of one configuration, the
\* first calls run and the second run_quiet, each on its own and with the
\* transport free to answer either as it likes
RunSide == "c1"
QuietSide == "c2"

PairInit ==
  \E a \in {BaseArgs, [BaseArgs EXCEPT !.quiet = TRUE]} :
    /\ cfg = [c \in Clients |-> SessionConfig(a)]
    /\ env = InitEnv(DefaultEnv, SessionConfig(a))
    /\ pc = [c \in Clients |-> "idle"]
    /\ call = [c \in Clients |-> NoCall]
    /\ attempts = [c \in Clients |-> 0]
    /\ fabric_exception = [c \in Clients |-> None]
    /\ fabric_result = [c \in Clients |-> <<>>]
    /\ outcome = [c \in Clients |-> NoOutcome]
    /\ wire = NoWire
    /\ held = NoOutcome
    /\ interleave = TRUE
    /\ err = NoErr

PairNext ==
  \/ Run(RunSide)
  \/ RunQuiet(QuietSide)
  \/ \E c \in Clients :
       \/ Wrapper(c)
       \/ RunRaises(c)
       \/ RunReports(c)
       \/ Leave(c)

PairSpec == PairInit /\ [][PairNext]_vars

\* two instances for different hosts, constructed one after the other, used
\* by an application that either serializes their calls or lets them overlap
FirstConfig == SessionConfig(BaseArgs)
SecondConfigs == {SessionConfig(a) : a \in {b \in CtorArgs : b.hostname # BaseArgs.hostname}}

ConcInit ==
  /\ interleave \in BOOLEAN
  /\ \E s \in SecondConfigs :
       /\ cfg = [c \in Clients |-> IF c = "c1" THEN FirstConfig ELSE s]
       /\ env = InitEnv(InitEnv(DefaultEnv, FirstConfig), s)
  /\ pc = [c \in Clients |-> "idle"]
  /\ call = [c \in Clients |-> NoCall]
  /\ attempts = [c \in Clients |-> 0]
  /\ fabric_exception = [c \in Clients |-> None]
  /\ fabric_result = [c \in Clients |-> <<>>]
  /\ outcome = [c \in Clients |-> NoOutcome]
  /\ wire = NoWire
  /\ held = NoOutcome
  /\ err = NoErr

\* instance c may start a call: always when calls overlap, else only when no
\* other instance is inside one
Free(c) == interleave \/ Serial(c)

\* the steps of the two instances' calls: the wrapper's env update and each
\* transport call are steps of their own, so that another instance's steps
\* can fall between them
ConcNext ==
  \E c \in Clients :
    \/ Free(c) /\ Uptime(c)
    \/ Free(c) /\ SendFiles(c)
    \/ Free(c) /\ ReceiveFiles(c)
    \/ Wrapper(c)
    \/ RunRaises(c)
    \/ RunReports(c)
    \/ Put(c)
    \/ Get(c)
    \/ Leave(c)

ConcSpec == ConcInit /\ [][ConcNext]_vars

\* the caller keeps what instance c's call handed it: the CmdResult returned,
\* or the CmdError with its CmdResult
Keep(c) ==
  /\ pc[c] = "done"
  /\ held = NoOutcome
  /\ outcome[c].result # <<>>
  /\ held' = outcome[c]
  /\ UNCHANGED <<cfg, env, pc, call, attempts, fabric_exception, fabric_result,
                 outcome, wire, interleave, err>>

\* two constructed instances whose caller makes call after call and keeps the
\* outcome of one of them
HoldInit ==
  /\ interleave = FALSE
  /\ \E s \in SecondConfigs :
       /\ cfg = [c \in Clients |-> IF c = "c1" THEN FirstConfig ELSE s]
       /\ env = InitEnv(InitEnv(DefaultEnv, FirstConfig), s)
  /\ pc = [c \in Clients |-> "idle"]
  /\ call = [c \in Clients |-> NoCall]
  /\ attempts = [c \in Clients |-> 0]
  /\ fabric_exception = [c \in Clients |-> None]
  /\ fabric_result = [c \in Clients |-> <<>>]
  /\ outcome = [c \in Clients |-> NoOutcome]
  /\ wire = NoWire
  /\ held = NoOutcome
  /\ err = NoErr

HoldNext ==
  \E c \in Clients :
    \/ Serial(c) /\ Run(c)
    \/ Serial(c) /\ RunQuiet(c)
    \/ Serial(c) /\ Uptime(c)
    \/ Serial(c) /\ Makedir(c)
    \/ Serial(c) /\ SendFiles(c)
    \/ Serial(c) /\ ReceiveFiles(c)
    \/ Wrapper(c)
    \/ RunRaises(c)
    \/ RunReports(c)
    \/ Put(c)
    \/ Get(c)
    \/ Keep(c)
    \/ Leave(c)

HoldSpec == HoldInit /\ [][HoldNext]_vars

(* ------------------------------- claims ------------------------------- *)

\* instance c's call of method op has ended
Ended(c, op) == pc[c] = "done" /\ call[c].op = op

\* the report the transport gave instance c's call
Report(c) == fabric_result[c][1]
HasReport(c) == fabric_result[c] # <<>>

\* C1: when the transport's final report is a failure with a non-zero exit
\* status and ignore_status is false, run raises CmdError; the error's command
\* is the requested command and its result is the CmdResult of this call
\* (the same command, the reported exit status).
C1_FailureRaisesCmdError ==
  \A c \in Clients :
    (/\ Ended(c, "run") /\ HasReport(c) /\ ~call[c].ignore_status
     /\ Report(c).failed /\ Report(c).return_code # 0)
    => /\ outcome[c].kind = "raised"
       /\ outcome[c].exc = CmdError
       /\ outcome[c].command = call[c].command
       /\ Len(outcome[c].result) = 1
       /\ outcome[c].result[1].command = call[c].command
       /\ outcome[c].result[1].exit_status = Report(c).return_code

\* C1 witness: a run of "false" that was retried and then reported status 2
C1_Witness ==
  \E c \in Clients :
    /\ Ended(c, "run") /\ ~call[c].ignore_status /\ call[c].command = "false"
    /\ HasReport(c) /\ Report(c).return_code = 2 /\ attempts[c] >= 2
    /\ outcome[c].exc = CmdError /\ outcome[c].result[1].exit_status = 2

\* C2: when the transport's report has exit status 0, run returns (for either
\* value of ignore_status) a CmdResult with exit_status 0, failed false and
\* succeeded true, and raises nothing.
C2_StatusZeroReturns ==
  \A c \in Clients :
    (Ended(c, "run") /\ HasReport(c) /\ Report(c).return_code = 0)
    => /\ outcome[c].kind = "returned"
       /\ outcome[c].value = "CmdResult"
       /\ Len(outcome[c].result) = 1
       /\ outcome[c].result[1].exit_status = 0
       /\ ~outcome[c].result[1].failed
       /\ outcome[c].result[1].succeeded

\* C2 witness: a run with ignore_status false returned on status 0
C2_Witness ==
  \E c \in Clients :
    /\ Ended(c, "run") /\ ~call[c].ignore_status
    /\ HasReport(c) /\ Report(c).return_code = 0
    /\ outcome[c].kind = "returned" /\ outcome[c].result[1].succeeded

\* C3: with ignore_status true run never raises CmdError, and on a report with
\* a non-zero exit status it returns a CmdResult with failed true and that
\* exit status.
C3_IgnoreStatusReturns ==
  \A c \in Clients :
    (call[c].op = "run" /\ call[c].ignore_status)
    => /\ outcome[c].exc # CmdError
       /\ (pc[c] = "done" /\ HasReport(c) /\ Report(c).return_code # 0)
          => /\ outcome[c].kind = "returned"
             /\ outcome[c].value = "CmdResult"
             /\ Len(outcome[c].result) = 1
             /\ outcome[c].result[1].failed
             /\ outcome[c].result[1].exit_status = Report(c).return_code

\* C3 witness: a run with ignore_status true returned a failed result
C3_Witness ==
  \E c \in Clients :
    /\ Ended(c, "run") /\ call[c].ignore_status
    /\ HasReport(c) /\ Report(c).return_code = 1
    /\ outcome[c].kind = "returned" /\ outcome[c].result[1].failed

\* a network error never reaches the caller of a command, and a result
\* carries the requested command
C4_Absorbed ==
  \A c \in Clients :
    call[c].op \in RunOps
    => /\ outcome[c].exc # NetworkError
       /\ (wire.client = c /\ wire.reply = NetworkError)
          => (pc[c] = "body" /\ outcome[c] = NoOutcome)
       /\ (pc[c] = "done" /\ call[c].op = "run")
          => /\ Len(outcome[c].result) = 1
             /\ outcome[c].result[1].command = call[c].command

\* the step that follows a network error is the same call to the transport,
\* made again by the same instance with the same command
C4_IssuedAgain ==
  (wire.kind = "run" /\ wire.reply = NetworkError)
  => /\ wire'.kind = "run"
     /\ wire'.client = wire.client
     /\ wire'.args = <<call[wire.client].command>>
     /\ wire'.turn # wire.turn

\* C4: however often the transport raises a network error for one command,
\* the executor never passes the network error to the caller: after each such
\* error it issues the same command string again, and the CmdResult it finally
\* produces has the requested command string as its command.
C4_NetworkErrorRetried == [](C4_Absorbed) /\ [][C4_IssuedAgain]_vars

\* C4 witness: a run that met network errors, the last of them on the second
\* attempt or later, was issued once more and then produced its result
C4_Witness ==
  \E c \in Clients :
    /\ Ended(c, "run") /\ attempts[c] >= 3
    /\ fabric_exception[c] = NetworkError
    /\ wire.reply = "report"
    /\ outcome[c].result[1].command = call[c].command

\* C5: if the transport never returns a usable result for a command (every
\* attempt errors out), the execution ends with a CmdResult that has
\* exit_status -300 and failed true: a command in the loop leads to a report
\* from the transport or to an end with that result.
C5_NoResultEndsWithSentinel ==
  \A c \in Clients :
    (pc[c] = "body" /\ call[c].op = "run")
    ~> \/ HasReport(c)
       \/ /\ pc[c] = "done"
          /\ Len(outcome[c].result) = 1
          /\ outcome[c].result[1].exit_status = NoResponseStatus
          /\ outcome[c].result[1].failed

C6_Absorbed ==
  \A c \in Clients :
    call[c].op \in RunOps
    => /\ outcome[c].exc # AuthenticationError
       /\ (wire.client = c /\ wire.reply = AuthenticationError)
          => /\ pc[c] = "body"
             /\ outcome[c] = NoOutcome
             /\ fabric_exception[c] = AuthenticationError

\* the step that follows an AuthenticationError is the same call to the
\* transport, made again by the same instance with the same command
C6_IssuedAgain ==
  (wire.kind = "run" /\ wire.reply = AuthenticationError)
  => /\ wire'.kind = "run"
     /\ wire'.client = wire.client
     /\ wire'.args = <<call[wire.client].command>>
     /\ wire'.turn # wire.turn

C7_EnvIsCallersConfig ==
  wire.kind # "none"
  => /\ wire.env.host_string = cfg[wire.client].hostname
     /\ wire.env.user = cfg[wire.client].username
     /\ wire.env.password = cfg[wire.client].password
     /\ wire.env.key_filename = cfg[wire.client].key_filename
     /\ wire.env.port = cfg[wire.client].port

Transfers == {"send_files", "receive_files"}

\* C8: send_files and receive_files return True when the transfer completes,
\* and return False, raising nothing, when the transport raises ValueError or
\* AuthenticationError during the transfer.
C8_TransferTrueFalse ==
  \A c \in Clients :
    (pc[c] = "done" /\ call[c].op \in Transfers /\ wire.client = c)
    => /\ wire.reply = "ok" => outcome[c] = Returned("True", <<>>)
       /\ wire.reply \in {ValueError, AuthenticationError}
          => outcome[c] = Returned("False", <<>>)

\* C8 witness: a receive_files whose get raised AuthenticationError returned
\* False
C8_Witness ==
  \E c \in Clients :
    /\ Ended(c, "receive_files") /\ wire.kind = "get"
    /\ wire.reply = AuthenticationError
    /\ outcome[c].kind = "returned" /\ outcome[c].value = "False"

\* C9: every failure of a transfer, a network error raised by put or get
\* included, reaches the caller of send_files / receive_files as the return
\* value False and never as an exception.
C9_TransferFailureIsFalse ==
  \A c \in Clients :
    (/\ pc[c] = "done" /\ call[c].op \in Transfers
     /\ wire.client = c /\ wire.reply # "ok")
    => outcome[c] = Returned("False", <<>>)

\* C10: uptime never raises; when the final report of its command has exit
\* status 0 it returns the CmdResult, and for every other exit status, the
\* -300 of a call without a report included, it returns the empty string.
C10_UptimeResultOrEmpty ==
  /\ \A c \in Clients :
       call[c].op = "uptime"
       => /\ outcome[c].kind # "raised"
          /\ (pc[c] = "done" /\ HasReport(c))
             => IF Report(c).return_code = 0
                THEN /\ outcome[c].value = "CmdResult"
                     /\ Len(outcome[c].result) = 1
                     /\ outcome[c].result[1].exit_status = 0
                     /\ outcome[c].result[1].command = "uptime"
                ELSE outcome[c] = Returned("''", <<>>)
  /\ \A e \in RetriedErrors :
       Finish("uptime", RunOutcome("uptime", TRUE, RunResult("uptime", <<>>, e)))
         = Returned("''", <<>>)

\* C10 witness: an uptime whose command was retried and then reported a
\* non-zero status returned the empty string
C10_Witness ==
  \E c \in Clients :
    /\ Ended(c, "uptime") /\ attempts[c] >= 2
    /\ HasReport(c) /\ Report(c).return_code # 0
    /\ outcome[c] = Returned("''", <<>>)

\* C11: makedir runs its command with ignore_status false, so whenever the
\* command's result is failed (a non-zero exit status, or the -300 of a call
\* without a report) makedir raises CmdError to its caller instead of
\* returning.
C11_MakedirRaisesOnFailure ==
  /\ \A c \in Clients :
       call[c].op = "makedir"
       => /\ ~call[c].ignore_status
          /\ (pc[c] = "done" /\ HasReport(c))
             => IF Report(c).failed
                THEN /\ outcome[c].kind = "raised"
                     /\ outcome[c].exc = CmdError
                     /\ outcome[c].command = call[c].command
                     /\ outcome[c].result[1].exit_status = Report(c).return_code
                ELSE outcome[c] = Returned("None", <<>>)
  /\ \A p \in Paths, e \in RetriedErrors :
       LET k == MakedirCall(p)
           o == Finish(k.op, RunOutcome(k.command, k.ignore_status,
                                        RunResult(k.command, <<>>, e)))
       IN  /\ o.kind = "raised" /\ o.exc = CmdError
           /\ o.result[1].exit_status = NoResponseStatus

\* C11 witness: a makedir of /a whose command reported status 1 raised
\* CmdError
C11_Witness ==
  \E c \in Clients :
    /\ Ended(c, "makedir") /\ call[c].command = "mkdir -p /a"
    /\ HasReport(c) /\ Report(c).return_code = 1
    /\ outcome[c].kind = "raised" /\ outcome[c].exc = CmdError

\* C12: run and run_quiet have the same result semantics: called with the
\* same command and the same ignore_status, and given the same final report
\* by the transport (whatever errors came before it on either side), both
\* return CmdResults equal in command, exit status, stdout, stderr, failed
\* and succeeded, or both raise the same error with equal command and result.
C12_RunQuietSameAsRun ==
  (/\ Ended(RunSide, "run") /\ Ended(QuietSide, "run_quiet")
   /\ call[RunSide].command = call[QuietSide].command
   /\ call[RunSide].ignore_status = call[QuietSide].ignore_status
   /\ fabric_result[RunSide] = fabric_result[QuietSide])
  => /\ outcome[RunSide].kind # "none"
     /\ outcome[RunSide] = outcome[QuietSide]

\* C12 witness: run and run_quiet of "false" with ignore_status false, the
\* same failed report after different numbers of attempts, both raised
C12_Witness ==
  /\ Ended(RunSide, "run") /\ Ended(QuietSide, "run_quiet")
  /\ call[RunSide].command = "false" /\ call[QuietSide].command = "false"
  /\ ~call[RunSide].ignore_status /\ ~call[QuietSide].ignore_status
  /\ fabric_result[RunSide] = fabric_result[QuietSide]
  /\ attempts[RunSide] = 1 /\ attempts[QuietSide] = 3
  /\ outcome[RunSide].exc = CmdError /\ outcome[QuietSide].exc = CmdError

\* a command ends only on a report: as long as the transport has answered
\* every attempt with an error, the call has neither returned nor raised
C13_NoEndWithoutReport ==
  \A c \in Clients :
    (call[c].op \in RunOps /\ ~HasReport(c))
    => (pc[c] # "done" /\ outcome[c] = NoOutcome)

\* a command in the loop comes to its end, by a return or by CmdError
C13_EndsOnReport ==
  \A c \in Clients :
    (pc[c] = "body" /\ call[c].op \in RunOps)
    ~> /\ pc[c] = "done" /\ HasReport(c)
       /\ (outcome[c].kind = "returned" \/ outcome[c].exc = CmdError)

\* C13: one command execution terminates exactly when the transport gives an
\* answer that is no network error: if the transport does in the end return a
\* report, the execution returns or raises CmdError; while every attempt is
\* answered by an error, it neither returns nor raises.
C13_TerminatesIffReport == [](C13_NoEndWithoutReport) /\ C13_EndsOnReport

\* C13 witness: a run_quiet that was answered by errors at least twice and
\* ended, raising CmdError, once the report came
C13_Witness ==
  \E c \in Clients :
    /\ Ended(c, "run_quiet") /\ attempts[c] >= 3
    /\ fabric_exception[c] # None /\ HasReport(c)
    /\ outcome[c].exc = CmdError

\* text t occurs in string s
Contains(s, t) ==
  \E i \in 1..(Len(s) - Len(t) + 1) : SubSeq(s, i, i + Len(t) - 1) = t

MsgInterrupted == "interrupted by user"
MsgNoSignals == "failed and is not responding to signals"
MsgRc == "(rc="

\* C14: the message of a CmdError that carries a result is chosen by exactly
\* one of three cases, in this order: the result is interrupted: the
\* "interrupted by user" message; else the exit status is absent: the "failed
\* and is not responding to signals" message; else the message contains
\* "(rc=N)", N the exit status. So every CmdError run() raises for a non-zero
\* exit status N contains "(rc=N)".
C14_MessageCases ==
  (err.str # None /\ err.result # <<>>)
  => LET r == err.result[1]
         third == ~r.interrupted /\ r.exit_status # <<>>
     IN  /\ Contains(err.str, MsgInterrupted) <=> r.interrupted
         /\ Contains(err.str, MsgNoSignals)
              <=> (~r.interrupted /\ r.exit_status = <<>>)
         /\ Contains(err.str, MsgRc) <=> third
         /\ third => Contains(err.str, MsgRc \o ToString(r.exit_status[1]) \o ")")
         /\ err.by = "run"
            => /\ third /\ r.exit_status[1] # 0
               /\ Contains(err.str, MsgRc \o ToString(r.exit_status[1]) \o ")")

\* C14 witness: the CmdError run() raises for "false" with status 1 reads
\* "Command 'false' failed (rc=1)"
C14_Witness ==
  /\ err.by = "run"
  /\ err.str = "Command 'false' failed (rc=1)"

\* C15: in every CmdResult that run() returns or attaches to a CmdError,
\* exit_status is -300 if and only if the transport produced no result
\* object; when the transport produced a report, the result's exit status,
\* stderr and failed/succeeded flags are the values of that report, the one of
\* the last attempt, whatever errors earlier attempts raised.
C15_ResultIsLastReport ==
  /\ \A c \in Clients :
       (pc[c] = "done" /\ outcome[c].result # <<>>)
       => LET r == outcome[c].result[1]
          IN  /\ r.exit_status = NoResponseStatus <=> ~HasReport(c)
              /\ HasReport(c)
                 => /\ r.exit_status = Report(c).return_code
                    /\ r.stderr = Report(c).stderr
                    /\ r.failed = Report(c).failed
                    /\ r.succeeded = Report(c).succeeded
  /\ \A cmd \in Commands, e \in RetriedErrors \cup {None} :
       /\ RunResult(cmd, <<>>, e).exit_status = NoResponseStatus
       /\ \A rep \in Reports :
            RunResult(cmd, <<rep>>, e).exit_status # NoResponseStatus

\* C15 witness: a run whose first attempts ended in network errors and whose
\* last attempt reported status 2 with text on stderr has ended, its result
\* carrying that status and that text
C15_Witness ==
  \E c \in Clients :
    /\ Ended(c, "run") /\ attempts[c] >= 2
    /\ fabric_exception[c] = NetworkError
    /\ HasReport(c) /\ Report(c).return_code = 2 /\ Report(c).stderr = "err"
    /\ outcome[c].result # <<>>
    /\ outcome[c].result[1].exit_status = 2
    /\ outcome[c].result[1].stderr = "err"

\* the last transport call was issued under another instance's host
UnderOthersHost ==
  /\ wire.kind # "none"
  /\ wire.env.host_string # cfg[wire.client].hostname
  /\ \E d \in Clients \ {wire.client} : wire.env.host_string = cfg[d].hostname

\* C16: when the calls of two instances with different hosts are serialized,
\* no transport call of an instance is issued while env holds the other
\* instance's host (every call goes out under its own instance's host); when
\* the calls overlap, such a call is reachable (C16_Witness).
C16_SerializedCallsUnderOwnHost ==
  (~interleave /\ wire.kind # "none")
  => /\ wire.env.host_string = cfg[wire.client].hostname
     /\ ~UnderOthersHost

\* C16 witness: with overlapping calls, an instance's put goes out while
\* env.host_string is the other instance's host
C16_Witness ==
  /\ interleave
  /\ wire.kind = "put"
  /\ UnderOthersHost

\* C17: no step of a call of run, run_quiet, uptime, makedir, send_files or
\* receive_files, whether the call returns or raises, changes the instance's
\* hostname, username, password, key path, port or quiet; and no step of a
\* later call changes a CmdResult (or the CmdError carrying it) that an
\* earlier call handed out.
C17_CallsChangeNothingKept ==
  [][/\ \A c \in Clients : cfg'[c] = cfg[c]
     /\ held # NoOutcome => held' = held]_vars

\* C17 witness: the caller holds the result of an earlier call, and a later
\* run has ended in a CmdError carrying a different result; both instances
\* have their configuration
C17_Witness ==
  /\ held # NoOutcome
  /\ cfg["c1"] = FirstConfig /\ cfg["c2"] \in SecondConfigs
  /\ \E c \in Clients :
       /\ Ended(c, "run")
       /\ outcome[c].kind = "raised" /\ outcome[c].exc = CmdError
       /\ outcome[c].result # held.result

====
